---- MODULE Spec2Model ----
(***************************************************************************)
(* Model of moonfire-nvr's src/streamer.rs: the per-camera Streamer        *)
(* (run / run_once) together with the test harness of tests::basic         *)
(* (MockOpener, ProxyingStream, SimulatedClock).                           *)
(*                                                                         *)
(* The Streamer thread is a sequential program; pc is its position.  The   *)
(* collaborators (Opener, Stream, Clock, Database, SampleFileDir, Writer,  *)
(* h264 transform) are behind traits or in other files, so every result    *)
(* they can return is an input drawn with \E.  In mode "basic" the results *)
(* of the opener, the stream and the clock are those of the test harness.  *)
(***************************************************************************)
EXTENDS Integers, Sequences, FiniteSets, TLC

\* ---------------------------------------------------------------- bounds
MaxOpens    == 2     \* opener.open calls per run
MaxPkts     == 3     \* packets pulled per run (free mode)
MaxTime     == 4     \* wall-clock readings are 0..MaxTime seconds (free mode)
MaxInterval == 2     \* rotate_interval_sec is 1..MaxInterval (free mode)
MaxAbsT     == 12    \* SpecRotate: writer opened at t in -MaxAbsT..MaxAbsT
MaxRotInt   == 5     \* SpecRotate: interval in 1..MaxRotInt

\* ------------------------------------------------------- program constants
SleepSec           == 1            \* time::Duration::seconds(1)
TIME_UNITS_PER_SEC == 90000
NanosPerSec        == 1000000000
TestStartSec       == 1430006400   \* 2015-04-26 00:00:00 UTC
TestInterval       == 5
TestOffset         == 0
ClipLen            == 10           \* packets in the test clip

\* Option<T>: None is the empty sequence, Some(x) a one-element sequence.
None    == <<>>
Some(x) == <<x>>
IsSome(o) == o # <<>>
Unwrap(o) == o[1]

VARIABLES
    mode,               \* "free": any collaborator result; "basic": the harness of tests::basic
    shutdown,           \* Streamer.shutdown (shared AtomicBool)
    rotate_interval_sec,
    rotate_offset_sec,
    pc,                 \* position of the thread in run / run_once
    video_sample_entry_id,
    need_transform,     \* extra_data.need_transform
    seen_key_frame,
    rotate,             \* Option<i64>
    writer,             \* Option<index into segs>
    w,                  \* the writer moved out of `writer` at line 137, until line 163
    next_start,         \* Option<continuity time>
    pkt,                \* Option<packet> pulled by get_next
    frame_realtime,     \* [sec, nsec] read at line 129
    now,                \* the Clock: [sec, nsec]
    streams,            \* MockOpener.streams (number of streams left)
    inner_pos,          \* packets of the clip already read by ProxyingStream.inner
    last_duration,      \* ProxyingStream.last_duration, nanoseconds
    segs,               \* the dir::Writers created on the last connection opened, in order
    opens,              \* opener.open calls so far
    npkts,              \* packets pulled so far
    sleeps,             \* seconds of each clock.sleep run() made since the last open
    lastResult,         \* result of the last finished run_once: "none", "ok", "err"
    initShutdown,       \* value of the shutdown flag when run() was called
    pulled,             \* the packets get_next returned on the last connection opened
    atShutdown,         \* Option<[opens, npkts]>: the counters when the flag was set
    registered          \* insert_video_sample_entry calls since the last open

vars == <<mode, shutdown, rotate_interval_sec, rotate_offset_sec, pc,
          video_sample_entry_id, need_transform, seen_key_frame, rotate, writer, w,
          next_start, pkt, frame_realtime, now, streams, inner_pos, last_duration,
          segs, opens, npkts, sleeps, lastResult, initShutdown, pulled, atShutdown, registered>>

sched  == <<rotate_interval_sec, rotate_offset_sec>>
locals == <<video_sample_entry_id, need_transform, seen_key_frame, rotate, writer, w,
            next_start, pkt, frame_realtime>>
harness == <<streams, inner_pos, last_duration>>

\* ------------------------------------------------------------ arithmetic
\* Rust's % on i64: the remainder has the sign of the dividend.
RustRem(a, b) == IF a >= 0 THEN a % b ELSE -((-a) % b)

\* Lines 140-144: the rotation boundary of a writer opened at second t.
RotationBoundary_NoAdvance(t, interval, offset) ==
    t - RustRem(t, interval) + offset

RotationBoundary(t, interval, offset) ==
    LET r == t - RustRem(t, interval) + offset
    IN  IF r <= t THEN r + interval ELSE r

\* Line 131: does a packet read at second sec rotate a writer whose boundary is r?
RotateDue_AnyFrame(sec, r, is_key) == sec > r

RotateDue(sec, r, is_key) == sec > r /\ is_key

\* Line 123: is the packet one to skip while waiting for the first key frame?
SkipPacket_Never(seen, is_key) == FALSE
SkipPacket_EveryNonKey(seen, is_key) == ~is_key

SkipPacket(seen, is_key) == ~seen /\ ~is_key

\* Line 148: next_start.unwrap_or(local_realtime)
SegmentStart_Local(next, local) == local

SegmentStart(next, local) == IF IsSome(next) THEN Unwrap(next) ELSE local

\* Lines 221-222: pkt.duration() * 1_000_000_000 / TIME_UNITS_PER_SEC in i64,
\* computed without exceeding 32 bits: both factors are divided by 10000.
DurationNanos(d) ==
    LET a == NanosPerSec \div 10000
        b == TIME_UNITS_PER_SEC \div 10000
    IN  (d \div b) * a + ((d % b) * a) \div b

\* SimulatedClock::sleep: advance the clock by ns nanoseconds.
ClockAdd(t, ns) ==
    LET n == t.nsec + ns
    IN  [sec |-> t.sec + n \div NanosPerSec, nsec |-> n % NanosPerSec]

\* The clip of tests::basic: key frames at packets 0, 4 and 8 (lines 331-344).
ClipKey(i) == i \in {0, 4, 8}
\* ffmpeg's duration estimate of a clip packet, in 90 kHz units: about a second.
ClipDurations == {89749, 90000, 90379}

\* -------------------------------------------------------------- segments
\* A dir::Writer as create_writer returns it, with the arguments it was given.
NewSeg_NoHandle(start, local, vse, boundary) ==
    [conn |-> opens, start |-> start, local |-> local, vse |-> 0,
     boundary |-> boundary, samples |-> <<>>, how |-> "open", closeArg |-> None,
     closeOk |-> FALSE]

NewSeg(start, local, vse, boundary) ==
    [conn |-> opens, start |-> start, local |-> local, vse |-> vse,
     boundary |-> boundary, samples |-> <<>>, how |-> "open", closeArg |-> None,
     closeOk |-> FALSE]

\* dir::Writer::close(arg): consumes the writer.
CloseSeg_StaysOpen(s, i, arg, how, ok) == s

CloseSeg(s, i, arg, how, ok) ==
    [s EXCEPT ![i].how = how, ![i].closeArg = arg, ![i].closeOk = ok]

\* Drop of a dir::Writer that was not closed (early return with `?`).
DropWriter_Leak(s, o) == s

DropWriter(s, o) ==
    IF IsSome(o) THEN CloseSeg(s, Unwrap(o), None, "drop", TRUE) ELSE s

\* The time close() returns: the end of segment i.
Continuity(i) == [kind |-> "cont", sec |-> i, nsec |-> 0]
\* recording::Time::new(frame_realtime)
LocalTime(t)  == [kind |-> "local", sec |-> t.sec, nsec |-> t.nsec]

\* ------------------------------------------------------------------ Init
Schedules == {sc \in [interval : 1..MaxInterval, offset : 0..(MaxInterval - 1)] :
                 sc.offset < sc.interval}

InitLocals ==
    /\ video_sample_entry_id = 0
    /\ need_transform = FALSE
    /\ seen_key_frame = FALSE
    /\ rotate = None
    /\ writer = None
    /\ w = None
    /\ next_start = None
    /\ pkt = None
    /\ frame_realtime = [sec |-> 0, nsec |-> 0]

InitHistory ==
    /\ segs = <<>>
    /\ opens = 0
    /\ npkts = 0
    /\ sleeps = <<>>
    /\ lastResult = "none"
    /\ pulled = <<>>
    /\ atShutdown = IF shutdown THEN Some([opens |-> 0, npkts |-> 0]) ELSE None
    /\ registered = 0

\* Streamer::new with any schedule, any collaborators; run() is about to be called.
Init ==
    /\ mode = "free"
    /\ shutdown \in BOOLEAN
    /\ initShutdown = shutdown
    /\ \E sc \in Schedules : /\ rotate_interval_sec = sc.interval
                             /\ rotate_offset_sec = sc.offset
    /\ pc = "run"
    /\ now = [sec |-> 0, nsec |-> 0]
    /\ streams = 0
    /\ inner_pos = 0
    /\ last_duration = 0
    /\ InitLocals
    /\ InitHistory

\* tests::basic, lines 295-323.
InitBasic ==
    /\ mode = "basic"
    /\ shutdown = FALSE
    /\ initShutdown = FALSE
    /\ rotate_interval_sec = TestInterval
    /\ rotate_offset_sec = TestOffset
    /\ pc = "run"
    /\ now = [sec |-> TestStartSec, nsec |-> 0]
    /\ streams = 1
    /\ inner_pos = 0
    /\ last_duration = 0
    /\ InitLocals
    /\ InitHistory

\* ------------------------------------------------------- Streamer::run
\* A run_once that returns Err: run() goes on to the sleep of lines 96-98.
CycleErr == pc' = "sleep" /\ lastResult' = "err"

\* The end of one iteration of the packet loop: pkt and frame_realtime, declared
\* in the loop body, go out of scope.
EndIter == pkt' = None /\ frame_realtime' = [sec |-> 0, nsec |-> 0]

\* Line 94 (and 101): the outer loop's read of the shutdown flag.  A run is cut
\* off after MaxOpens opens, at this read and while the flag is unset.
RunCheck_ExitOnError ==
    /\ pc = "run"
    /\ pc' = IF shutdown \/ lastResult = "err" THEN "done" ELSE "open"
    /\ UNCHANGED <<mode, shutdown, sched, locals, now, harness, segs, opens, npkts,
                   sleeps, lastResult, initShutdown, pulled, atShutdown, registered>>

RunCheck_NoCheck ==
    /\ pc = "run"
    /\ pc' = "open"
    /\ UNCHANGED <<mode, shutdown, sched, locals, now, harness, segs, opens, npkts,
                   sleeps, lastResult, initShutdown, pulled, atShutdown, registered>>

RunCheck ==
    /\ pc = "run"
    /\ shutdown \/ opens < MaxOpens
    /\ pc' = IF shutdown THEN "done" ELSE "open"
    /\ UNCHANGED <<mode, shutdown, sched, locals, now, harness, segs, opens, npkts,
                   sleeps, lastResult, initShutdown, pulled, atShutdown, registered>>

\* Lines 96-98: the sleep after a failed run_once.
Sleep_Twice ==
    /\ pc = "sleep"
    /\ sleeps' = Append(Append(sleeps, SleepSec), SleepSec)
    /\ now' = IF mode = "basic" THEN ClockAdd(now, 2 * SleepSec * NanosPerSec) ELSE now
    /\ pc' = "run"
    /\ UNCHANGED <<mode, shutdown, sched, locals, harness, segs, opens, npkts,
                   lastResult, initShutdown, pulled, atShutdown, registered>>

Sleep ==
    /\ pc = "sleep"
    /\ sleeps' = Append(sleeps, SleepSec)
    /\ now' = IF mode = "basic" THEN ClockAdd(now, SleepSec * NanosPerSec) ELSE now
    /\ pc' = "run"
    /\ UNCHANGED <<mode, shutdown, sched, locals, harness, segs, opens, npkts,
                   lastResult, initShutdown, pulled, atShutdown, registered>>

\* ---------------------------------------------------- Streamer::run_once
\* Whether a call of the database, the directory, a writer or the transform
\* succeeds.  tests::basic runs on a TestDb whose calls succeed.
CollabResults == IF mode = "basic" THEN {TRUE} ELSE BOOLEAN

\* MockOpener::open, lines 252-269: the results the opener can return.
OpenResults ==
    IF mode = "basic"
    THEN IF streams > 0
         THEN {[ok |-> TRUE,  streams |-> streams - 1, shutdown |-> shutdown]}
         ELSE {[ok |-> FALSE, streams |-> streams,     shutdown |-> TRUE]}
    ELSE {[ok |-> b, streams |-> streams, shutdown |-> shutdown] : b \in BOOLEAN}

\* Line 107: self.opener.open(...)?
Open ==
    /\ pc = "open"
    /\ opens < MaxOpens
    /\ opens' = opens + 1
    /\ sleeps' = <<>>
    /\ \E res \in OpenResults :
          /\ streams' = res.streams
          /\ shutdown' = res.shutdown
          /\ atShutdown' = IF res.shutdown /\ ~shutdown
                           THEN Some([opens |-> opens + 1, npkts |-> npkts])
                           ELSE atShutdown
          /\ IF res.ok THEN /\ pc' = "extra"
                            /\ segs' = <<>>
                            /\ pulled' = <<>>
                            /\ UNCHANGED lastResult
                       ELSE /\ CycleErr
                            /\ UNCHANGED <<segs, pulled>>
    /\ registered' = 0
    /\ UNCHANGED <<mode, sched, locals, now, inner_pos, last_duration, npkts,
                   initShutdown>>

\* Line 110: stream.get_extra_data()?
GetExtraData ==
    /\ pc = "extra"
    /\ \E ok \in CollabResults, nt \in BOOLEAN :
          IF ok THEN /\ need_transform' = nt
                     /\ pc' = "insert"
                     /\ UNCHANGED lastResult
                ELSE /\ nt
                     /\ CycleErr
                     /\ UNCHANGED need_transform
    /\ UNCHANGED <<mode, shutdown, sched, video_sample_entry_id, seen_key_frame, rotate,
                   writer, w, next_start, pkt, frame_realtime, now, harness, segs, opens,
                   npkts, sleeps, initShutdown, pulled, atShutdown, registered>>

\* Lines 111-119: insert_video_sample_entry(...)?, then the locals of the packet loop.
\* The handle returned is named after the cycle that registered it.
InsertVideoSampleEntry_KeepLocals ==
    /\ pc = "insert"
    /\ registered' = registered + 1
    /\ \E ok \in CollabResults :
          IF ok THEN /\ video_sample_entry_id' = opens
                     /\ w' = None
                     /\ pkt' = None
                     /\ pc' = "loop"
                     /\ UNCHANGED <<lastResult, seen_key_frame, rotate, writer, next_start>>
                ELSE /\ CycleErr
                     /\ UNCHANGED <<video_sample_entry_id, seen_key_frame, rotate, writer,
                                    w, next_start, pkt>>
    /\ UNCHANGED <<mode, shutdown, sched, need_transform, frame_realtime, now, harness,
                   segs, opens, npkts, sleeps, initShutdown, pulled, atShutdown>>

InsertVideoSampleEntry ==
    /\ pc = "insert"
    /\ registered' = registered + 1
    /\ \E ok \in CollabResults :
          IF ok THEN /\ video_sample_entry_id' = opens
                     /\ seen_key_frame' = FALSE
                     /\ rotate' = None
                     /\ writer' = None
                     /\ w' = None
                     /\ next_start' = None
                     /\ pkt' = None
                     /\ pc' = "loop"
                     /\ UNCHANGED lastResult
                ELSE /\ CycleErr
                     /\ UNCHANGED <<video_sample_entry_id, seen_key_frame, rotate, writer,
                                    w, next_start, pkt>>
    /\ UNCHANGED <<mode, shutdown, sched, need_transform, frame_realtime, now, harness,
                   segs, opens, npkts, sleeps, initShutdown, pulled, atShutdown>>

\* Line 120: the packet loop's read of the shutdown flag.
LoopCheck_NoCheck ==
    /\ pc = "loop"
    /\ pc' = "next"
    /\ UNCHANGED <<mode, shutdown, sched, locals, now, harness, segs, opens, npkts,
                   sleeps, lastResult, initShutdown, pulled, atShutdown, registered>>

LoopCheck ==
    /\ pc = "loop"
    /\ pc' = IF shutdown THEN "close" ELSE "next"
    /\ UNCHANGED <<mode, shutdown, sched, locals, now, harness, segs, opens, npkts,
                   sleeps, lastResult, initShutdown, pulled, atShutdown, registered>>

\* Lines 165-168: the close after the loop, then Ok(()).
FinalClose_SwallowError ==
    /\ pc = "close"
    /\ IF IsSome(writer)
       THEN \E ok \in CollabResults :
               segs' = CloseSeg(segs, Unwrap(writer), None, "final", ok)
       ELSE UNCHANGED segs
    /\ pc' = "run"
    /\ lastResult' = "ok"
    /\ writer' = None
    /\ UNCHANGED <<mode, shutdown, sched, video_sample_entry_id, need_transform,
                   seen_key_frame, rotate, w, next_start, pkt, frame_realtime, now,
                   harness, opens, npkts, sleeps, initShutdown, pulled, atShutdown,
                   registered>>

FinalClose ==
    /\ pc = "close"
    /\ IF IsSome(writer)
       THEN \E ok \in CollabResults :
               /\ segs' = CloseSeg(segs, Unwrap(writer), None, "final", ok)
               /\ IF ok THEN pc' = "run" /\ lastResult' = "ok" ELSE CycleErr
       ELSE /\ pc' = "run"
            /\ lastResult' = "ok"
            /\ UNCHANGED segs
    /\ writer' = None
    /\ UNCHANGED <<mode, shutdown, sched, video_sample_entry_id, need_transform,
                   seen_key_frame, rotate, w, next_start, pkt, frame_realtime, now,
                   harness, opens, npkts, sleeps, initShutdown, pulled, atShutdown, registered>>

\* Stream::get_next: the results the stream can return.  A packet is
\* [key, pts, data, id]; its pts, when present, is its number in the run.
\* ProxyingStream::get_next, lines 210-240: pkts_left is u32::max_value(), the
\* clock sleeps last_duration, then the clip yields its next packet or Eof.
NextResults ==
    IF mode = "basic"
    THEN IF inner_pos < ClipLen
         THEN {[ok |-> TRUE,
                pkt |-> [key |-> ClipKey(inner_pos), pts |-> Some(npkts), data |-> TRUE,
                         id |-> npkts],
                now |-> ClockAdd(now, last_duration),
                inner_pos |-> inner_pos + 1,
                last_duration |-> DurationNanos(d)] : d \in ClipDurations}
         ELSE {[ok |-> FALSE, pkt |-> [key |-> FALSE, pts |-> None, data |-> FALSE, id |-> npkts],
                now |-> ClockAdd(now, last_duration),
                inner_pos |-> inner_pos, last_duration |-> last_duration]}
    ELSE {[ok |-> FALSE, pkt |-> [key |-> FALSE, pts |-> None, data |-> FALSE, id |-> npkts],
           now |-> now, inner_pos |-> inner_pos, last_duration |-> last_duration]}
         \cup
         {[ok |-> TRUE,
           pkt |-> [key |-> k, pts |-> IF p THEN Some(npkts) ELSE None, data |-> d,
                    id |-> npkts],
           now |-> now, inner_pos |-> inner_pos, last_duration |-> last_duration] :
             k \in IF npkts < MaxPkts THEN BOOLEAN ELSE {},
             p \in BOOLEAN, d \in BOOLEAN}

\* Line 121: stream.get_next()?
GetNext ==
    /\ pc = "next"
    /\ \E res \in NextResults :
          /\ now' = res.now
          /\ inner_pos' = res.inner_pos
          /\ last_duration' = res.last_duration
          /\ IF res.ok
             THEN /\ pkt' = Some(res.pkt)
                  /\ npkts' = npkts + 1
                  /\ pulled' = Append(pulled, [id |-> res.pkt.id, key |-> res.pkt.key])
                  /\ pc' = "pts"
                  /\ UNCHANGED <<segs, writer, lastResult>>
             ELSE /\ segs' = DropWriter(segs, writer)
                  /\ writer' = None
                  /\ CycleErr
                  /\ UNCHANGED <<pkt, npkts, pulled>>
    /\ UNCHANGED <<mode, shutdown, sched, video_sample_entry_id, need_transform,
                   seen_key_frame, rotate, w, next_start, frame_realtime, streams,
                   opens, sleeps, initShutdown, atShutdown, registered>>

\* Lines 122-128: the packet's pts is required, then packets before the first
\* key frame are skipped.
CheckPts ==
    /\ pc = "pts"
    /\ LET p == Unwrap(pkt) IN
       IF ~IsSome(p.pts)
       THEN /\ segs' = DropWriter(segs, writer)
            /\ writer' = None
            /\ CycleErr
            /\ EndIter
            /\ UNCHANGED seen_key_frame
       ELSE IF SkipPacket(seen_key_frame, p.key)
       THEN /\ pc' = "loop"
            /\ EndIter
            /\ UNCHANGED <<segs, writer, lastResult, seen_key_frame>>
       ELSE /\ seen_key_frame' = TRUE
            /\ pc' = "time"
            /\ UNCHANGED <<segs, writer, lastResult, pkt, frame_realtime>>
    /\ UNCHANGED <<mode, shutdown, sched, video_sample_entry_id, need_transform, rotate,
                   w, next_start, now, harness, opens, npkts, sleeps,
                   initShutdown, pulled, atShutdown, registered>>

\* Clock::get_time: the wall clock reads anything in free mode; the
\* SimulatedClock of the test only moves when something sleeps on it.
ClockReadings ==
    IF mode = "basic" THEN {now} ELSE {[sec |-> t, nsec |-> 0] : t \in 0..MaxTime}

\* Line 129: let frame_realtime = self.clock.get_time();
GetTime ==
    /\ pc = "time"
    /\ \E t \in ClockReadings : frame_realtime' = t
    /\ pc' = "rotate"
    /\ UNCHANGED <<mode, shutdown, sched, video_sample_entry_id, need_transform,
                   seen_key_frame, rotate, writer, w, next_start, pkt, now, harness,
                   segs, opens, npkts, sleeps, lastResult, initShutdown, pulled, atShutdown, registered>>

\* Lines 130-136: the rotation check; the old writer is closed at the packet's pts.
Rotate ==
    /\ pc = "rotate"
    /\ LET p == Unwrap(pkt) IN
       IF IsSome(rotate) /\ RotateDue(frame_realtime.sec, Unwrap(rotate), p.key)
       THEN IF ~IsSome(writer)
            THEN /\ pc' = "panic"      \* expect("rotate set implies writer is set")
                 /\ UNCHANGED <<segs, writer, next_start, lastResult, pkt, frame_realtime>>
            ELSE \E ok \in CollabResults :
                    /\ segs' = CloseSeg(segs, Unwrap(writer), p.pts, "rotate", ok)
                    /\ writer' = None
                    /\ IF ok THEN /\ next_start' = Some(Continuity(Unwrap(writer)))
                                  /\ pc' = "create"
                                  /\ UNCHANGED <<lastResult, pkt, frame_realtime>>
                             ELSE /\ CycleErr
                                  /\ EndIter
                                  /\ UNCHANGED next_start
       ELSE /\ pc' = "create"
            /\ UNCHANGED <<segs, writer, next_start, lastResult, pkt, frame_realtime>>
    /\ UNCHANGED <<mode, shutdown, sched, video_sample_entry_id, need_transform,
                   seen_key_frame, rotate, w, now, harness, opens, npkts, sleeps, initShutdown, pulled, atShutdown, registered>>

\* Lines 137-151: take the open writer, or set the next boundary and create one.
CreateWriter ==
    /\ pc = "create"
    /\ IF IsSome(writer)
       THEN /\ w' = writer
            /\ writer' = None
            /\ pc' = "data"
            /\ UNCHANGED <<rotate, segs, lastResult, pkt, frame_realtime>>
       ELSE LET r == RotationBoundary(frame_realtime.sec, rotate_interval_sec,
                                      rotate_offset_sec)
                local_realtime == LocalTime(frame_realtime)
                start == SegmentStart(next_start, local_realtime)
            IN  /\ rotate' = Some(r)
                /\ \E ok \in CollabResults :
                      IF ok THEN /\ segs' = Append(segs, NewSeg(start, local_realtime,
                                                              video_sample_entry_id, r))
                                 /\ w' = Some(Len(segs) + 1)
                                 /\ pc' = "data"
                                 /\ UNCHANGED <<writer, lastResult, pkt, frame_realtime>>
                            ELSE /\ CycleErr
                                 /\ EndIter
                                 /\ UNCHANGED <<segs, w, writer>>
    /\ UNCHANGED <<mode, shutdown, sched, video_sample_entry_id, need_transform,
                   seen_key_frame, next_start, now, harness, opens, npkts, sleeps, initShutdown, pulled, atShutdown, registered>>

\* Lines 152-155: the packet's payload is required.
CheckData ==
    /\ pc = "data"
    /\ IF Unwrap(pkt).data
       THEN /\ pc' = "transform"
            /\ UNCHANGED <<segs, w, lastResult, pkt, frame_realtime>>
       ELSE /\ segs' = DropWriter(segs, w)
            /\ w' = None
            /\ CycleErr
            /\ EndIter
    /\ UNCHANGED <<mode, shutdown, sched, video_sample_entry_id, need_transform,
                   seen_key_frame, rotate, writer, next_start, now, harness, opens, npkts,
                   sleeps, initShutdown, pulled, atShutdown, registered>>

\* Lines 156-161: h264::transform_sample_data(...)? when the stream needs it.
Transform ==
    /\ pc = "transform"
    /\ \E ok \in CollabResults :
          IF ok \/ ~need_transform
          THEN /\ ok
               /\ pc' = "write"
               /\ UNCHANGED <<segs, w, lastResult, pkt, frame_realtime>>
          ELSE /\ segs' = DropWriter(segs, w)
               /\ w' = None
               /\ CycleErr
               /\ EndIter
    /\ UNCHANGED <<mode, shutdown, sched, video_sample_entry_id, need_transform,
                   seen_key_frame, rotate, writer, next_start, now, harness, opens, npkts,
                   sleeps, initShutdown, pulled, atShutdown, registered>>

\* Lines 162-163: w.write(data, pts, is_key)?; writer = Some(w).
Write ==
    /\ pc = "write"
    /\ \E ok \in CollabResults :
          IF ok
          THEN /\ segs' = [segs EXCEPT ![Unwrap(w)].samples =
                              Append(@, [id |-> Unwrap(pkt).id, key |-> Unwrap(pkt).key])]
               /\ writer' = w
               /\ w' = None
               /\ pc' = "loop"
               /\ UNCHANGED lastResult
          ELSE /\ segs' = DropWriter(segs, w)
               /\ w' = None
               /\ CycleErr
               /\ UNCHANGED writer
    /\ EndIter
    /\ UNCHANGED <<mode, shutdown, sched, video_sample_entry_id, need_transform,
                   seen_key_frame, rotate, next_start, now, harness, opens, npkts,
                   sleeps, initShutdown, pulled, atShutdown, registered>>

\* ------------------------------------------------------------ environment
\* Another thread stores true into the shared shutdown flag.
SetShutdown ==
    /\ mode = "free"
    /\ ~shutdown
    /\ shutdown' = TRUE
    /\ atShutdown' = Some([opens |-> opens, npkts |-> npkts])
    /\ UNCHANGED <<mode, sched, pc, locals, now, harness, segs, opens, npkts, sleeps,
                   lastResult, initShutdown, pulled, registered>>

Next ==
    \/ RunCheck
    \/ Sleep
    \/ Open
    \/ GetExtraData
    \/ InsertVideoSampleEntry
    \/ LoopCheck
    \/ FinalClose
    \/ GetNext
    \/ CheckPts
    \/ GetTime
    \/ Rotate
    \/ CreateWriter
    \/ CheckData
    \/ Transform
    \/ Write
    \/ SetShutdown

Spec == Init /\ [][Next]_vars

\* The steps of the Streamer's thread.
Thread ==
    \/ RunCheck
    \/ Sleep
    \/ Open
    \/ GetExtraData
    \/ InsertVideoSampleEntry
    \/ LoopCheck
    \/ FinalClose
    \/ GetNext
    \/ CheckPts
    \/ GetTime
    \/ Rotate
    \/ CreateWriter
    \/ CheckData
    \/ Transform
    \/ Write

\* The thread keeps running and every collaborator call returns.  The flag's
\* effect does not depend on the rotation schedule, so the fair runs use one
\* schedule (a rotation boundary every second), which keeps them small.
InitFair == Init /\ rotate_interval_sec = 1
SpecFair == InitFair /\ [][Next]_vars /\ WF_vars(Thread)

\* tests::basic: nothing but the opener stores the shutdown flag, so the
\* packet loop never leaves through line 165.
NextBasic ==
    \/ RunCheck
    \/ Sleep
    \/ Open
    \/ GetExtraData
    \/ InsertVideoSampleEntry
    \/ LoopCheck
    \/ GetNext
    \/ CheckPts
    \/ GetTime
    \/ Rotate
    \/ CreateWriter
    \/ CheckData
    \/ Transform
    \/ Write

SpecBasic == InitBasic /\ [][NextBasic]_vars

\* The Streamer's thread keeps running and every call of the harness returns.
SpecBasicFair == SpecBasic /\ WF_vars(NextBasic)

\* The rotation boundary alone: a writer is about to be created (line 137,
\* no writer open) at any second t under any schedule 0 <= offset < interval.
RotSchedules == {sc \in [interval : 1..MaxRotInt, offset : 0..(MaxRotInt - 1)] :
                    sc.offset < sc.interval}

InitRotate ==
    /\ mode = "free"
    /\ shutdown = FALSE
    /\ initShutdown = FALSE
    /\ \E sc \in RotSchedules : /\ rotate_interval_sec = sc.interval
                                /\ rotate_offset_sec = sc.offset
    /\ pc = "create"
    /\ now = [sec |-> 0, nsec |-> 0]
    /\ streams = 0
    /\ inner_pos = 0
    /\ last_duration = 0
    /\ video_sample_entry_id = 1
    /\ need_transform = FALSE
    /\ seen_key_frame = TRUE
    /\ rotate = None
    /\ writer = None
    /\ w = None
    /\ next_start = None
    /\ pkt = Some([key |-> TRUE, pts |-> Some(0), data |-> TRUE, id |-> 0])
    /\ \E t \in (-MaxAbsT)..MaxAbsT : frame_realtime = [sec |-> t, nsec |-> 0]
    /\ segs = <<>>
    /\ opens = 1
    /\ npkts = 1
    /\ sleeps = <<>>
    /\ lastResult = "none"
    /\ pulled = <<[id |-> 0, key |-> TRUE]>>
    /\ atShutdown = None
    /\ registered = 1

NextRotate == CreateWriter

SpecRotate == InitRotate /\ [][NextRotate]_vars

\* ================================================================ claims
SegIds == DOMAIN segs
CurPkt == Unwrap(pkt)

\* C1: a writer is closed with a boundary timestamp (rotation close) only by
\* the rotation check of a packet whose key flag is set and whose clock
\* reading has reached the writer's rotation boundary.
C1_RotationOnlyOnKeyFrame ==
    [][\A i \in SegIds :
          (segs[i].how = "open" /\ segs'[i].how = "rotate")
          => /\ pc = "rotate"
             /\ CurPkt.key
             /\ frame_realtime.sec >= segs[i].boundary
             /\ rotate = Some(segs[i].boundary)
             /\ segs'[i].closeArg # None]_vars

\* A non-key packet read after the boundary has passed the rotation check with
\* the writer still open, on a connection that has rotated before.
C1_Witness ==
    /\ pc = "create"
    /\ IsSome(writer)
    /\ ~CurPkt.key
    /\ frame_realtime.sec > Unwrap(rotate)
    /\ \E i \in SegIds : segs[i].how = "rotate" /\ segs[i].conn = opens

\* C2: with a writer open and boundary b, the rotation check of a key-frame
\* packet read at frame_realtime >= b (b itself included) closes the writer
\* with that packet's timestamp.
C2_RotatesAtBoundary ==
    [][(/\ pc = "rotate"
        /\ pc' # "rotate"
        /\ IsSome(writer)
        /\ IsSome(rotate)
        /\ CurPkt.key
        /\ frame_realtime.sec >= Unwrap(rotate))
       => /\ segs'[Unwrap(writer)].how = "rotate"
          /\ segs'[Unwrap(writer)].closeArg = CurPkt.pts]_vars

\* C3: the boundary set when a writer is created at second t is after t and
\* congruent to the offset modulo the interval.
C3_BoundaryAfterAndAligned ==
    (pc = "data" /\ IsSome(w))
    => /\ IsSome(rotate)
       /\ Unwrap(rotate) > frame_realtime.sec
       /\ (Unwrap(rotate) - rotate_offset_sec) % rotate_interval_sec = 0
       /\ segs[Unwrap(w)].boundary = Unwrap(rotate)

\* A writer created at a negative second that is a multiple of the interval,
\* with offset 0: the unadvanced r equals t.
C3_Witness ==
    /\ pc = "data"
    /\ IsSome(w)
    /\ frame_realtime.sec < 0
    /\ rotate_interval_sec > 1
    /\ Unwrap(rotate) = frame_realtime.sec + rotate_interval_sec

\* C4: on a connection no writer exists and nothing is written before a key
\* packet has been pulled; the first sample written is the first key packet.
KeyIdx == {j \in DOMAIN pulled : pulled[j].key}
FirstKeyIdx == CHOOSE j \in KeyIdx : \A k \in KeyIdx : j <= k
CurSegs == {i \in SegIds : segs[i].conn = opens}

C4_NothingBeforeFirstKeyFrame ==
    /\ (IsSome(writer) \/ IsSome(w) \/ pc \in {"rotate", "create", "data", "transform", "write"})
          => KeyIdx # {}
    /\ \A i \in CurSegs :
          /\ KeyIdx # {}
          /\ \A k \in DOMAIN segs[i].samples :
                segs[i].samples[k].id >= pulled[FirstKeyIdx].id
          /\ (segs[i].samples # <<>> /\ \A h \in CurSegs : i <= h)
                => segs[i].samples[1] = pulled[FirstKeyIdx]

\* Non-key packets came first on this connection, then a key frame was written.
C4_Witness ==
    /\ pulled # <<>>
    /\ ~pulled[1].key
    /\ \E i \in CurSegs : segs[i].samples # <<>>

\* C5: within one connection, segment N+1 is created with the continuity
\* time that the rotation close of segment N returned.
C5_SegmentsContiguous ==
    \A i \in SegIds :
       (i + 1 \in SegIds /\ segs[i + 1].conn = segs[i].conn)
       => /\ segs[i].how = "rotate"
          /\ segs[i].closeOk
          /\ segs[i + 1].start = Continuity(i)
          /\ segs[i + 1].start # segs[i + 1].local

\* Three segments on one connection: the third starts where the second ended.
C5_Witness ==
    /\ Len(segs) >= 3
    /\ segs[1].conn = segs[3].conn

\* C6: once run_once has returned, no writer is open; a writer open when the
\* cycle failed was closed with no boundary timestamp.
OutsideCycle == pc \in {"sleep", "run", "open", "done"}

C6_NoWriterLeaked ==
    /\ OutsideCycle => \A i \in SegIds : segs[i].how # "open"
    /\ \A i \in SegIds : segs[i].how = "drop" => segs[i].closeArg = None

\* A cycle failed in the middle of a segment that already has a sample.
C6_Witness ==
    /\ pc = "sleep"
    /\ \E i \in CurSegs : segs[i].how = "drop" /\ segs[i].samples # <<>>

\* C7: run() returns only from the outer loop's check, with the shutdown flag
\* set; a failed cycle leads to the sleep, the sleep back to the check, and the
\* check to another open while the flag is unset.
C7_ReturnsOnlyOnShutdown ==
    /\ [](pc = "done" => shutdown)
    /\ [](pc # "panic")
    /\ [][(pc # "done" /\ pc' = "done") => (pc = "run" /\ shutdown)]_vars
    /\ [][(pc = "sleep" /\ pc' # pc) => pc' = "run"]_vars
    /\ [][(pc = "run" /\ ~shutdown /\ pc' # pc) => pc' = "open"]_vars

\* A cycle failed, the flag was unset, a second cycle was opened and failed
\* too; run() went back to the check.
C7_Witness ==
    /\ pc = "run"
    /\ ~shutdown
    /\ lastResult = "err"
    /\ opens = 2

\* C8: when the flag is set as run() is called, nothing is opened, read from
\* the clock, slept or created, and the only step is the return.
C8_ShutdownBeforeStart ==
    initShutdown
    => /\ pc \in {"run", "done"}
       /\ opens = 0
       /\ sleeps = <<>>
       /\ segs = <<>>
       /\ npkts = 0

C8_Witness == initShutdown /\ pc = "done"

\* C9: a failed cycle is followed by exactly one sleep of one second before the
\* flag is read again or the opener is called again; an Ok cycle by none.
C9_OneSleepPerFailedCycle ==
    /\ pc = "sleep" => (lastResult = "err" /\ sleeps = <<>>)
    /\ (pc \in {"run", "done"} /\ lastResult = "err") => sleeps = <<SleepSec>>
    /\ (pc \in {"run", "done"} /\ lastResult = "ok") => sleeps = <<>>
    /\ (pc = "open" /\ opens > 0) => (lastResult = "err" /\ sleeps = <<SleepSec>>)

\* The first cycle failed and was followed by its sleep; the second ended Ok
\* and run() returned without sleeping.
C9_Witness ==
    /\ pc = "done"
    /\ opens = 2
    /\ lastResult = "ok"
    /\ sleeps = <<>>

\* C10: tests::basic records two segments, packets 0..7 and 8..9, the first
\* rotated at the key frame of packet 8 and not at the 5 s boundary.
Ids(samples) == [k \in DOMAIN samples |-> samples[k].id]

C10_BasicAtReturn ==
    pc = "done"
    => /\ Len(segs) = 2
       /\ Ids(segs[1].samples) = <<0, 1, 2, 3, 4, 5, 6, 7>>
       /\ Ids(segs[2].samples) = <<8, 9>>
       /\ segs[1].samples[1].key
       /\ segs[2].samples[1].key
       /\ segs[1].boundary = TestStartSec + TestInterval
       /\ segs[1].how = "rotate"
       /\ segs[1].closeArg = Some(8)
       /\ segs[2].start = Continuity(1)
       /\ inner_pos = ClipLen
       /\ opens = 2
       /\ streams = 0

C10_BasicTwoSegments == []C10_BasicAtReturn /\ <>(pc = "done")

C10_Witness ==
    /\ mode = "basic"
    /\ pc = "done"
    /\ Len(segs) = 2
    /\ Len(segs[1].samples) = 8

\* C11: the first sample written to any writer has the key-frame flag set.
C11_SegmentsStartWithKeyFrame ==
    \A i \in SegIds : segs[i].samples # <<>> => segs[i].samples[1].key

\* A writer created by a rotation has its first sample.
C11_Witness ==
    /\ Len(segs) >= 2
    /\ segs[2].samples # <<>>
    /\ Len(segs[1].samples) >= 2

\* C12: once the flag is set the thread pulls at most one more packet and
\* starts at most one more open, and run() returns.
C12_ShutdownStopsRun ==
    /\ [](IsSome(atShutdown)
          => /\ opens - Unwrap(atShutdown).opens <= 1
             /\ npkts - Unwrap(atShutdown).npkts <= 1)
    /\ (shutdown ~> pc = "done")

\* The flag was set while get_next was being called: one more packet was
\* pulled, then run() returned.
C12_Witness ==
    /\ pc = "done"
    /\ ~initShutdown
    /\ npkts = Unwrap(atShutdown).npkts + 1

\* C13: at most one writer is open, it is the one the thread holds, and a
\* writer is created only when none is open.
OpenSegs == {i \in SegIds : segs[i].how = "open"}

C13_AtMostOneOpenWriter ==
    /\ [](/\ Cardinality(OpenSegs) <= 1
          /\ ~(IsSome(writer) /\ IsSome(w))
          /\ \A i \in OpenSegs : writer = Some(i) \/ w = Some(i))
    /\ [][Len(segs') > Len(segs) => (OpenSegs = {} /\ ~IsSome(writer))]_vars

\* A rotation: the old writer is closed and the new one is open.
C13_Witness ==
    /\ Len(segs) >= 2
    /\ segs[1].how = "rotate"
    /\ segs[2].how = "open"

\* C14: when the packet loop reads the flag set it pulls nothing more; an open
\* writer is closed once, with no boundary timestamp; a failed close is the
\* cycle's error, and run() still goes from its sleep to the return.
C14_CloseOnShutdown ==
    /\ [][(pc = "loop" /\ shutdown /\ pc' # pc)
          => (pc' = "close" /\ npkts' = npkts /\ segs' = segs)]_vars
    /\ [][(pc = "close" /\ pc' # pc)
          => /\ npkts' = npkts
             /\ writer' = None
             /\ IF IsSome(writer)
                THEN LET c == segs'[Unwrap(writer)] IN
                     /\ segs[Unwrap(writer)].how = "open"
                     /\ c.how = "final"
                     /\ c.closeArg = None
                     /\ pc' = IF c.closeOk THEN "run" ELSE "sleep"
                     /\ lastResult' = IF c.closeOk THEN "ok" ELSE "err"
                ELSE segs' = segs /\ pc' = "run" /\ lastResult' = "ok"]_vars
    /\ [][\A i \in SegIds : (segs[i].how = "final" /\ i \in DOMAIN segs')
                               => segs'[i] = segs[i]]_vars
    /\ [](pc = "close" => shutdown)
    /\ [][(pc \in {"sleep", "run"} /\ shutdown /\ pc' # pc)
          => pc' \in {"run", "done"}]_vars

\* The close after the loop failed and run_once returned its error.
C14_Witness ==
    /\ pc = "sleep"
    /\ \E i \in SegIds : /\ segs[i].how = "final"
                         /\ ~segs[i].closeOk
                         /\ segs[i].samples # <<>>

\* C15: the samples written on a connection, segment after segment, are the
\* packets pulled from the first key frame on, in order and once each, up to
\* the packet being processed or the one that ended the cycle; the packet that
\* rotates is the first sample of the new segment.
RECURSIVE Written(_)
Written(n) == IF n = 0 THEN <<>> ELSE Written(n - 1) \o segs[n].samples

FromFirstKey == IF KeyIdx = {} THEN <<>> ELSE SubSeq(pulled, FirstKeyIdx, Len(pulled))

C15_SamplesArePacketsInOrder ==
    LET wr == Written(Len(segs))
        pk == FromFirstKey
    IN  /\ Len(wr) <= Len(pk)
        /\ wr = SubSeq(pk, 1, Len(wr))
        /\ Len(pk) - Len(wr) <= 1
        /\ pc = "loop" => wr = pk
        /\ \A i \in SegIds :
              (i + 1 \in SegIds /\ segs[i + 1].samples # <<>>)
              => segs[i].closeArg = Some(segs[i + 1].samples[1].id)

\* Packets before the first key frame, then two segments with samples.
C15_Witness ==
    /\ pc = "loop"
    /\ Len(segs) >= 2
    /\ segs[1].samples # <<>>
    /\ segs[2].samples # <<>>
    /\ ~pulled[1].key

\* C16: a connection cycle registers the codec parameters once, after open and
\* get_extra_data succeeded and before any packet is pulled; every writer of the
\* cycle carries the handle of that registration; a failure of open,
\* get_extra_data or the registration ends the cycle with an error with no
\* packet pulled and no writer created.
InPacketLoop ==
    pc \in {"loop", "next", "pts", "time", "rotate", "create", "data", "transform",
            "write", "close"}

C16_RegisteredOncePerCycle ==
    /\ [](/\ registered \in {0, 1}
          /\ InPacketLoop => (registered = 1 /\ video_sample_entry_id = opens)
          /\ pc \in {"extra", "insert"}
                => (registered = 0 /\ pulled = <<>> /\ segs = <<>>)
          /\ \A i \in SegIds : segs[i].vse = segs[i].conn)
    /\ [][(pc \in {"open", "extra", "insert"} /\ pc' # pc)
          => \/ /\ pc = "open" /\ pc' = "extra" /\ registered' = 0
                /\ npkts' = npkts /\ segs' = <<>> /\ lastResult' = lastResult
             \/ /\ pc = "extra" /\ pc' = "insert" /\ registered' = 0
                /\ npkts' = npkts /\ segs' = segs /\ lastResult' = lastResult
             \/ /\ pc = "insert" /\ pc' = "loop" /\ registered' = 1
                /\ npkts' = npkts /\ segs' = segs /\ lastResult' = lastResult
             \/ /\ pc' = "sleep" /\ lastResult' = "err"
                /\ npkts' = npkts /\ segs' = segs]_vars
    /\ [][(npkts' # npkts \/ Len(segs') > Len(segs)) => registered = 1]_vars

\* The second connection's writer, with the second registration's handle.
C16_Witness ==
    /\ segs # <<>>
    /\ segs[1].conn = 2
    /\ segs[1].vse = 2
    /\ segs[1].samples # <<>>

\* C17: while the first key frame is awaited, a packet without the key-frame
\* flag is discarded whatever its other fields are: the loop goes on to the
\* next packet with no error, no clock read, no writer and no write.
C17_NonKeyDiscardedWhileAwaiting ==
    [][(pc = "pts" /\ ~seen_key_frame /\ ~CurPkt.key /\ pc' # pc)
       => (pc' = "loop" /\ lastResult' = lastResult /\ segs' = segs)]_vars

\* C18: in Recording a packet without pts or without payload ends the cycle in
\* an error, and while it is processed no writer is closed at a boundary
\* timestamp, no writer is created and no sample is written.
Malformed(p) == ~IsSome(p.pts) \/ ~p.data

\* The packet being processed came after the connection's first key frame.
InRecording == KeyIdx # {} /\ FirstKeyIdx < Len(pulled)

C18_MalformedPacketNoEffect ==
    [][(IsSome(pkt) /\ Malformed(CurPkt) /\ InRecording)
       => /\ Len(segs') = Len(segs)
          /\ \A i \in SegIds : /\ segs'[i].samples = segs[i].samples
                               /\ segs'[i].how = "rotate" => segs[i].how = "rotate"
          /\ pkt' # pkt => lastResult' = "err"]_vars

\* C19: at the rotation check a set boundary comes with an open writer, so the
\* expect never panics.
C19_RotateImpliesWriter ==
    /\ pc # "panic"
    /\ (pc = "rotate" /\ IsSome(rotate)) => IsSome(writer)

\* A rotation check on the second connection, boundary passed on a key frame.
C19_Witness ==
    /\ pc = "rotate"
    /\ opens = 2
    /\ IsSome(rotate)
    /\ IsSome(writer)
    /\ RotateDue(frame_realtime.sec, Unwrap(rotate), CurPkt.key)

\* C20: a connection cycle starts with no writer, no boundary, no key frame
\* seen and no continuity timestamp, so the first writer of a connection starts
\* at the local time of its first key frame.
C20_FreshStatePerConnection ==
    /\ (pc = "loop" /\ pulled = <<>>)
          => /\ writer = None
             /\ w = None
             /\ rotate = None
             /\ ~seen_key_frame
             /\ next_start = None
             /\ OpenSegs = {}
    /\ segs # <<>> => (segs[1].start = segs[1].local /\ segs[1].start.kind = "local")

\* The first writer of a second connection, the first of which had rotated.
C20_Witness ==
    /\ segs # <<>>
    /\ segs[1].conn = 2
    /\ sleeps # <<>>
    /\ Len(pulled) >= 1

TypeOK ==
    /\ pc \in {"run", "open", "extra", "insert", "loop", "close", "next", "pts", "time",
               "rotate", "create", "data", "transform", "write", "sleep", "done", "panic"}
    /\ shutdown \in BOOLEAN
    /\ opens \in 0..MaxOpens

====
